---- MODULE Spec2Model ----
(***************************************************************************)
(* Distributed lock of kit/distributedlock (package dlock) and its        *)
(* PostgreSQL implementation kit/distributedlock/sql (package dlocksql).  *)
(*                                                                         *)
(* A Lock handle {value, tx, mutex} is driven by caller goroutines.  Each  *)
(* call of Lock, IsLock or Release is a short program run under the        *)
(* handle's mutex; its steps are the calls it makes on the store          *)
(* (BeginTxx, GetContext, Rollback), which interleave with the calls of    *)
(* the other goroutines and with the store ending sessions on its own.     *)
(***************************************************************************)
EXTENDS Integers, Sequences, FiniteSets, TLC

\* ------------------------------------------------------------------ bounds
NumHandles == 2

Handles == 1..NumHandles
\* the goroutines that call: the test's own and the one it starts with go
Procs == {1, 2}
\* one session slot per handle and one to spare: a call holds at most one
Sessions == 1..(NumHandles + 1)

\* ---------------------------------------------------------- key derivation
\* hash: FNV-1a over the bytes of the name, 64 bits wide, kept as four 16-bit
\* limbs (least significant first) so that no intermediate exceeds 2^31.
Limb == 256 * 256
FnvPrimeLow == 435
FnvOffset == <<8997, 33826, 40164, 52210>>

\* the names of the tests, as bytes
NameMylock == <<109, 121, 108, 111, 99, 107>>
NameDifferentlock == <<100, 105, 102, 102, 101, 114, 101, 110, 116, 108, 111, 99, 107>>
Names == {NameMylock, NameDifferentlock}

RECURSIVE Xor(_, _)
Xor(a, b) ==
    IF a = 0 THEN b
    ELSE IF b = 0 THEN a
    ELSE (((a % 2) + (b % 2)) % 2) + (2 * Xor(a \div 2, b \div 2))

\* h * 0x100000001b3 mod 2^64, with 0x100000001b3 = 2^40 + 435
FnvMul(h) ==
    LET p0 == h[1] * FnvPrimeLow
        p1 == h[2] * FnvPrimeLow + (p0 \div Limb)
        p2 == h[3] * FnvPrimeLow + (p1 \div Limb)
        p3 == h[4] * FnvPrimeLow + (p2 \div Limb)
        s2 == (h[1] * 256) % Limb
        s3 == ((h[2] * 256) + (h[1] \div 256)) % Limb
        r2 == (p2 % Limb) + s2
        r3 == (p3 % Limb) + s3 + (r2 \div Limb)
    IN  <<p0 % Limb, p1 % Limb, r2 % Limb, r3 % Limb>>

RECURSIVE FnvWrite(_, _)
FnvWrite(h, bytes) ==
    IF bytes = <<>> THEN h
    ELSE FnvWrite(FnvMul(<<Xor(h[1], Head(bytes)), h[2], h[3], h[4]>>), Tail(bytes))

hash(in) == FnvWrite(FnvOffset, in)

NoKey == <<>>
Keys == {hash(n) : n \in Names}

\* ------------------------------------------------------------------ errors
\* An error is the chain of its messages, the root error last; nil is empty.
Nil == <<>>
ErrAcquiredLock == <<"failed to acquired lock">>
\* what the store's client returns: a failure of the store (I/O, a session
\* that is over), or the error of a context that is done
ErrStore == <<"store failure">>
ErrCtx == <<"context canceled">>

\* errors.Wrap: nil stays nil, else "message: err" wrapping err
Wrap(err, message) == IF err = Nil THEN Nil ELSE message \o err

\* errors.Is for the sentinel errors above: the root of the chain
Is(err, target) == err # Nil /\ err[Len(err)] = target[1]

\* ------------------------------------------------------------------- state
VARIABLES
    value,    \* value[h]: the handle's key, NoKey before New created it
    tx,       \* tx[h]: the session (transaction) the handle holds, 0 for nil
    mutex,    \* mutex[h]: the handle's sync.Mutex is locked
    sess,     \* sess[s]: a session of the store
    proc,     \* proc[p]: the call goroutine p is in
    task      \* the run of WaitForLock or ContextLock, and of its monitor

vars == <<value, tx, mutex, sess, proc, task>>

NoTx == 0

\* a session slot: st is "none" (no such session), "open" (alive in the store)
\* or "dead" (ended by the store, the client's Tx object still referenced);
\* lock is the advisory lock it holds
NoSess == [st |-> "none", lock |-> NoKey]

\* a goroutine outside any call; in a call, ctxDone tells whether the context
\* the caller gave is done
Idle ==
    [pc |-> "idle", op |-> "none", h |-> 0, ctxDone |-> FALSE, tx |-> NoTx,
     err |-> Nil, rbErr |-> Nil, ret |-> Nil,
     nBegin |-> 0, nTry |-> 0, nProbe |-> 0, nEnd |-> 0]

\* no helper running. In a run: kind is the helper, pc its position, h its
\* handle, p the goroutine of the call it is in, ctxDone whether the context
\* it was given is done, ret the error it returned; for ContextLock derived
\* tells that newCtx was made, started that the monitor goroutine was,
\* cancelled that the returned cancel was called, newDone that newCtx is
\* done; tick that the helper's ticker has a tick waiting in t.C; for
\* WaitForLock held tells that other handles have held its key ever since it
\* was called, entryDone that its context was done and unlocked that its
\* handle was Unlocked and in no call when it was called, tried that it has
\* called Lock.
\* Where the handles are used directly and their acquisitions are counted,
\* h is the handle that was Locked first and locked the times it became so.
NoTask ==
    [kind |-> "none", pc |-> "off", h |-> 0, p |-> 0, ctxDone |-> FALSE, ret |-> Nil,
     derived |-> FALSE, started |-> FALSE, cancelled |-> FALSE, newDone |-> FALSE,
     tick |-> FALSE, held |-> FALSE, entryDone |-> FALSE, unlocked |-> FALSE,
     tried |-> FALSE, locked |-> 0]

Init ==
    /\ task = NoTask
    /\ value = [h \in Handles |-> NoKey]
    /\ tx = [h \in Handles |-> NoTx]
    /\ mutex = [h \in Handles |-> FALSE]
    /\ sess = [s \in Sessions |-> NoSess]
    /\ proc = [p \in Procs |-> Idle]

\* ------------------------------------------------------------ the store
Alive(s) == s # NoTx /\ sess[s].st = "open"

\* mutant of Granted: advisory locks that are not kept apart by key
GrantedAnyKey(s, key) == \A o \in Sessions \ {s} : ~(sess[o].st = "open" /\ sess[o].lock # NoKey)

\* pg_try_advisory_xact_lock: granted unless another live session holds the key
Granted(s, key) == \A o \in Sessions \ {s} : ~(sess[o].st = "open" /\ sess[o].lock = key)

FreeSlots == {s \in Sessions : sess[s].st = "none"}
\* the slot of a new session: the caller's own when it is free
NewSession(h) ==
    IF h \in FreeSlots THEN h ELSE CHOOSE s \in FreeSlots : \A o \in FreeSlots : s <= o

\* what a statement on session s returns besides its rows, done telling
\* whether its context is done
StmtErr(s, done, fail) ==
    IF done THEN ErrCtx
    ELSE IF ~Alive(s) \/ fail THEN ErrStore
    ELSE Nil

\* tx.Rollback: the session is over afterwards in every case
RollbackErr(s, fail) ==
    IF ~Alive(s) \/ fail THEN ErrStore ELSE Nil

Ended(s) == [sess EXCEPT ![s] = NoSess]

\* --------------------------------------------------------------- handles
\* mutant of New: the lock taken when the handle is made
NewLocking(h, name) ==
    /\ value[h] = NoKey
    /\ value' = [value EXCEPT ![h] = hash(name)]
    /\ sess' = [sess EXCEPT ![NewSession(h)] = [st |-> "open", lock |-> hash(name)]]
    /\ tx' = [tx EXCEPT ![h] = NewSession(h)]
    /\ UNCHANGED <<mutex, proc>>

\* DistributedLock.New: a handle for the name, nothing locked
New(h, name) ==
    /\ value[h] = NoKey
    /\ value' = [value EXCEPT ![h] = hash(name)]
    /\ UNCHANGED <<tx, mutex, sess, proc>>

\* the goroutine that takes the next call: goroutines are interchangeable
IdleProcs == {p \in Procs : proc[p].pc = "idle"}
Caller(p) == p \in IdleProcs /\ \A o \in IdleProcs : p <= o

\* mutant of Enter: a call that does not wait for the handle's mutex
EnterNoMutex(p, h) ==
    /\ Caller(p)
    /\ value[h] # NoKey
    /\ mutex' = [mutex EXCEPT ![h] = TRUE]

\* l.mutex.Lock(): a call goes on once it has the handle's mutex
Enter(p, h) ==
    /\ Caller(p)
    /\ value[h] # NoKey
    /\ ~mutex[h]
    /\ mutex' = [mutex EXCEPT ![h] = TRUE]

\* Lock.Lock: if l.tx == nil a fresh acquisition, else isLock
LockBranch(h) == IF tx[h] = NoTx THEN "begin" ELSE "probe"

\* Lock.Lock(ctx), up to its first call on the store
CallLock(p, h, done) ==
    /\ Enter(p, h)
    /\ proc' = [proc EXCEPT ![p] =
                  [Idle EXCEPT !.op = "Lock", !.h = h, !.ctxDone = done, !.pc = LockBranch(h)]]
    /\ UNCHANGED <<value, tx, sess>>

\* Lock.IsLock(ctx), up to isLock
CallIsLock(p, h, done) ==
    /\ Enter(p, h)
    /\ proc' = [proc EXCEPT ![p] =
                  [Idle EXCEPT !.op = "IsLock", !.h = h, !.ctxDone = done, !.pc = "probe"]]
    /\ UNCHANGED <<value, tx, sess>>

\* Lock.Release(), up to release
CallRelease(p, h) ==
    /\ Enter(p, h)
    /\ proc' = [proc EXCEPT ![p] = [Idle EXCEPT !.op = "Release", !.h = h, !.pc = "end"]]
    /\ UNCHANGED <<value, tx, sess>>

\* l.db.BeginTxx(ctx, ...): a new session, or an error that Lock returns
BeginTxx(p, fail) ==
    LET e == IF proc[p].ctxDone THEN ErrCtx ELSE IF fail THEN ErrStore ELSE Nil
        s == NewSession(proc[p].h)
    IN
    /\ proc[p].pc = "begin"
    /\ IF e # Nil
       THEN /\ proc' = [proc EXCEPT ![p] =
                          [@ EXCEPT !.pc = "ret", !.err = e, !.ret = e, !.nBegin = @ + 1]]
            /\ UNCHANGED sess
       ELSE /\ FreeSlots # {}
            /\ sess' = [sess EXCEPT ![s] = [st |-> "open", lock |-> NoKey]]
            /\ proc' = [proc EXCEPT ![p] = [@ EXCEPT !.pc = "try", !.tx = s, !.nBegin = @ + 1]]
    /\ UNCHANGED <<value, tx, mutex>>

\* mutants of TryAcquire: pg_advisory_xact_lock, which waits for the holder;
\* a refused try-acquire that is tried again; l.tx = tx before res.Succeed
\* is looked at
TryAcquireBlocking(p, fail) ==
    LET h == proc[p].h
        s == proc[p].tx
        e == StmtErr(s, proc[p].ctxDone, fail)
    IN
    /\ proc[p].pc = "try"
    /\ IF e # Nil
       THEN /\ proc' = [proc EXCEPT ![p] = [@ EXCEPT !.pc = "rb_err", !.err = e, !.nTry = @ + 1]]
            /\ UNCHANGED <<sess, tx>>
       ELSE /\ Granted(s, value[h])
            /\ sess' = [sess EXCEPT ![s].lock = value[h]]
            /\ tx' = [tx EXCEPT ![h] = s]
            /\ proc' = [proc EXCEPT ![p] = [@ EXCEPT !.pc = "ret", !.ret = Nil, !.nTry = @ + 1]]
    /\ UNCHANGED <<value, mutex>>
TryAcquireRetry(p, fail) ==
    LET h == proc[p].h
        s == proc[p].tx
        e == StmtErr(s, proc[p].ctxDone, fail)
    IN
    /\ proc[p].pc = "try"
    /\ IF e # Nil
       THEN /\ proc' = [proc EXCEPT ![p] = [@ EXCEPT !.pc = "rb_err", !.err = e, !.nTry = @ + 1]]
            /\ UNCHANGED <<sess, tx>>
       ELSE IF Granted(s, value[h])
       THEN /\ sess' = [sess EXCEPT ![s].lock = value[h]]
            /\ tx' = [tx EXCEPT ![h] = s]
            /\ proc' = [proc EXCEPT ![p] = [@ EXCEPT !.pc = "ret", !.ret = Nil, !.nTry = @ + 1]]
       ELSE /\ proc' = [proc EXCEPT ![p] = [@ EXCEPT !.pc = "try", !.nTry = @ + 1]]
            /\ UNCHANGED <<sess, tx>>
    /\ UNCHANGED <<value, mutex>>
TryAcquireStoresEarly(p, fail) ==
    LET h == proc[p].h
        s == proc[p].tx
        e == StmtErr(s, proc[p].ctxDone, fail)
    IN
    /\ proc[p].pc = "try"
    /\ IF e # Nil
       THEN /\ proc' = [proc EXCEPT ![p] = [@ EXCEPT !.pc = "rb_err", !.err = e, !.nTry = @ + 1]]
            /\ UNCHANGED <<sess, tx>>
       ELSE IF Granted(s, value[h])
       THEN /\ sess' = [sess EXCEPT ![s].lock = value[h]]
            /\ tx' = [tx EXCEPT ![h] = s]
            /\ proc' = [proc EXCEPT ![p] = [@ EXCEPT !.pc = "ret", !.ret = Nil, !.nTry = @ + 1]]
       ELSE /\ proc' = [proc EXCEPT ![p] = [@ EXCEPT !.pc = "rb_busy", !.nTry = @ + 1]]
            /\ tx' = [tx EXCEPT ![h] = s]
            /\ UNCHANGED sess
    /\ UNCHANGED <<value, mutex>>

\* tx.GetContext(ctx, &res, "SELECT pg_try_advisory_xact_lock($1)", l.value)
\* and, when res.Succeed, l.tx = tx; return nil
TryAcquire(p, fail) ==
    LET h == proc[p].h
        s == proc[p].tx
        e == StmtErr(s, proc[p].ctxDone, fail)
    IN
    /\ proc[p].pc = "try"
    /\ IF e # Nil
       THEN /\ proc' = [proc EXCEPT ![p] = [@ EXCEPT !.pc = "rb_err", !.err = e, !.nTry = @ + 1]]
            /\ UNCHANGED <<sess, tx>>
       ELSE IF Granted(s, value[h])
       THEN /\ sess' = [sess EXCEPT ![s].lock = value[h]]
            /\ tx' = [tx EXCEPT ![h] = s]
            /\ proc' = [proc EXCEPT ![p] = [@ EXCEPT !.pc = "ret", !.ret = Nil, !.nTry = @ + 1]]
       ELSE /\ proc' = [proc EXCEPT ![p] = [@ EXCEPT !.pc = "rb_busy", !.nTry = @ + 1]]
            /\ UNCHANGED <<sess, tx>>
    /\ UNCHANGED <<value, mutex>>

\* mutant of LockErrorRet: the rollback error returned in place of err
LockErrorRetRollback(err, rollbackErr) ==
    IF rollbackErr # Nil
    THEN rollbackErr
    ELSE Wrap(err, <<"failed to get lock status">>)

\* what Lock returns after the try-acquire met an error
LockErrorRet(err, rollbackErr) ==
    IF rollbackErr # Nil
    THEN Wrap(err, rollbackErr)
    ELSE Wrap(err, <<"failed to get lock status">>)

\* mutant of RollbackOnError: the error returned without tx.Rollback()
RollbackOnErrorLeak(p, fail) ==
    /\ proc[p].pc = "rb_err"
    /\ proc' = [proc EXCEPT ![p] =
                  [@ EXCEPT !.pc = "ret",
                            !.ret = Wrap(proc[p].err, <<"failed to get lock status">>)]]
    /\ UNCHANGED <<value, tx, mutex, sess>>

\* the try-acquire met an error: tx.Rollback() and the error, wrapped
RollbackOnError(p, fail) ==
    LET s == proc[p].tx
        rollbackErr == RollbackErr(s, fail)
    IN
    /\ proc[p].pc = "rb_err"
    /\ sess' = Ended(s)
    /\ proc' = [proc EXCEPT ![p] =
                  [@ EXCEPT !.pc = "ret", !.rbErr = rollbackErr, !.nEnd = @ + 1,
                            !.ret = LockErrorRet(proc[p].err, rollbackErr)]]
    /\ UNCHANGED <<value, tx, mutex>>

\* what Lock returns after the try-acquire was refused (err is nil there)
LockRefusedRet(err, rollbackErr) ==
    IF rollbackErr # Nil
    THEN Wrap(err, rollbackErr)
    ELSE ErrAcquiredLock

\* mutant of RollbackOnRefusal: ErrAcquiredLock returned without tx.Rollback()
RollbackOnRefusalLeak(p, fail) ==
    /\ proc[p].pc = "rb_busy"
    /\ proc' = [proc EXCEPT ![p] = [@ EXCEPT !.pc = "ret", !.ret = ErrAcquiredLock]]
    /\ UNCHANGED <<value, tx, mutex, sess>>

\* the try-acquire was refused: tx.Rollback() and ErrAcquiredLock
RollbackOnRefusal(p, fail) ==
    LET s == proc[p].tx
        rollbackErr == RollbackErr(s, fail)
    IN
    /\ proc[p].pc = "rb_busy"
    /\ sess' = Ended(s)
    /\ proc' = [proc EXCEPT ![p] =
                  [@ EXCEPT !.pc = "ret", !.rbErr = rollbackErr, !.nEnd = @ + 1,
                            !.ret = LockRefusedRet(proc[p].err, rollbackErr)]]
    /\ UNCHANGED <<value, tx, mutex>>

\* mutants of isLockProbe: a probe error that is dropped, and an Unlocked
\* handle answered with a wrapped nil
isLockProbeErrDropped(c, h, e) ==
    IF tx[h] = NoTx
    THEN [c EXCEPT !.pc = "ret",
                   !.ret = Wrap(ErrAcquiredLock, <<"does not lock the ressource">>)]
    ELSE [c EXCEPT !.pc = "ret", !.ret = Nil, !.nProbe = @ + 1]
isLockProbeNilWrapped(c, h, e) ==
    IF tx[h] = NoTx
    THEN [c EXCEPT !.pc = "ret", !.ret = Wrap(c.err, <<"does not lock the ressource">>)]
    ELSE IF e = Nil
    THEN [c EXCEPT !.pc = "ret", !.ret = Nil, !.nProbe = @ + 1]
    ELSE [c EXCEPT !.pc = "lost", !.err = e, !.nProbe = @ + 1]

\* isLock up to its release: the call c on handle h, e what the probe returns
isLockProbe(c, h, e) ==
    IF tx[h] = NoTx
    THEN [c EXCEPT !.pc = "ret",
                   !.ret = Wrap(ErrAcquiredLock, <<"does not lock the ressource">>)]
    ELSE IF e = Nil
    THEN [c EXCEPT !.pc = "ret", !.ret = Nil, !.nProbe = @ + 1]
    ELSE [c EXCEPT !.pc = "lost", !.err = e, !.nProbe = @ + 1]

\* isLock: no tx, no lock; else l.tx.GetContext(ctx, &res, "SELECT TRUE as succeed")
Probe(p, fail) ==
    LET h == proc[p].h
        e == StmtErr(tx[h], proc[p].ctxDone, fail)
    IN
    /\ proc[p].pc = "probe"
    /\ proc' = [proc EXCEPT ![p] = isLockProbe(@, h, e)]
    /\ UNCHANGED <<value, tx, mutex, sess>>

\* mutants of release: without the l.tx != nil test, with the Rollback error
\* swallowed, without Rollback, and ending whatever session holds the key
releaseErrNoTest(h, fail) == RollbackErr(tx[h], fail)
releaseErrSwallowed(h, fail) == Nil
releaseSessNoRollback(h) == sess
releaseSessByKey(h) ==
    [s \in Sessions |-> IF sess[s].lock = value[h] \/ s = tx[h] THEN NoSess ELSE sess[s]]

\* Lock.release: what it returns, the sessions afterwards, its calls of Rollback
releaseErr(h, fail) == IF tx[h] # NoTx THEN RollbackErr(tx[h], fail) ELSE Nil
releaseSess(h) == IF tx[h] # NoTx THEN Ended(tx[h]) ELSE sess
releaseCalls(h) == IF tx[h] # NoTx THEN 1 ELSE 0

\* mutant of isLockLostRet: the error of release returned as it is
isLockLostRetBare(err) == IF err # Nil THEN err ELSE ErrAcquiredLock

\* what isLock returns after a failed probe
isLockLostRet(err) == IF err # Nil THEN Wrap(ErrAcquiredLock, err) ELSE ErrAcquiredLock

\* mutant of ReleaseLost: a Lock that goes for a fresh acquisition after the loss
ReleaseLostRetry(p, fail) ==
    LET h == proc[p].h
        err == releaseErr(h, fail)
    IN
    /\ proc[p].pc = "lost"
    /\ sess' = releaseSess(h)
    /\ tx' = [tx EXCEPT ![h] = NoTx]
    /\ proc' = [proc EXCEPT ![p] =
                  [@ EXCEPT !.pc = IF proc[p].op = "Lock" THEN "begin" ELSE "ret",
                            !.rbErr = err, !.nEnd = @ + releaseCalls(h),
                            !.ret = isLockLostRet(err)]]
    /\ UNCHANGED <<value, mutex>>

\* isLock after a failed probe: l.release() and ErrAcquiredLock
ReleaseLost(p, fail) ==
    LET h == proc[p].h
        err == releaseErr(h, fail)
    IN
    /\ proc[p].pc = "lost"
    /\ sess' = releaseSess(h)
    /\ tx' = [tx EXCEPT ![h] = NoTx]
    /\ proc' = [proc EXCEPT ![p] =
                  [@ EXCEPT !.pc = "ret", !.rbErr = err, !.nEnd = @ + releaseCalls(h),
                            !.ret = isLockLostRet(err)]]
    /\ UNCHANGED <<value, mutex>>

\* mutant of DoRelease: the session ended, l.tx left as it was
DoReleaseKeepsTx(p, fail) ==
    LET h == proc[p].h
        err == releaseErr(h, fail)
    IN
    /\ proc[p].pc = "end"
    /\ sess' = releaseSess(h)
    /\ proc' = [proc EXCEPT ![p] =
                  [@ EXCEPT !.pc = "ret", !.rbErr = err, !.nEnd = @ + releaseCalls(h),
                            !.ret = err]]
    /\ UNCHANGED <<value, mutex, tx>>

\* Release: l.release()
DoRelease(p, fail) ==
    LET h == proc[p].h
        err == releaseErr(h, fail)
    IN
    /\ proc[p].pc = "end"
    /\ sess' = releaseSess(h)
    /\ tx' = [tx EXCEPT ![h] = NoTx]
    /\ proc' = [proc EXCEPT ![p] =
                  [@ EXCEPT !.pc = "ret", !.rbErr = err, !.nEnd = @ + releaseCalls(h),
                            !.ret = err]]
    /\ UNCHANGED <<value, mutex>>

\* mutant of Return: the deferred l.mutex.Unlock() left out
ReturnKeepsMutex(p) ==
    /\ proc[p].pc = "ret"
    /\ proc' = [proc EXCEPT ![p] = Idle]
    /\ UNCHANGED <<value, tx, sess, mutex>>

\* the deferred l.mutex.Unlock() and the return to the caller
Return(p) ==
    /\ proc[p].pc = "ret"
    /\ mutex' = [mutex EXCEPT ![proc[p].h] = FALSE]
    /\ proc' = [proc EXCEPT ![p] = Idle]
    /\ UNCHANGED <<value, tx, sess>>

\* ------------------------------------------------------- the environment
\* the store ends a session on its own: the connection is lost, the backend
\* is terminated, or the sql package rolls the transaction back because the
\* context given to BeginTxx is done
StoreDrop(s) ==
    /\ Alive(s)
    /\ sess' = [sess EXCEPT ![s] = [@ EXCEPT !.st = "dead", !.lock = NoKey]]
    /\ UNCHANGED <<value, tx, mutex, proc>>

\* the context given to the call p is in is cancelled, or its deadline passes
Cancel(p) ==
    /\ proc[p].pc \in {"begin", "try", "probe"}
    /\ ~proc[p].ctxDone
    /\ proc' = [proc EXCEPT ![p].ctxDone = TRUE]
    /\ UNCHANGED <<value, tx, mutex, sess>>

Next ==
    \/ \E h \in Handles, name \in Names : New(h, name) /\ UNCHANGED task
    \/ \E p \in Procs, h \in Handles, done \in BOOLEAN : CallLock(p, h, done) /\ UNCHANGED task
    \/ \E p \in Procs, h \in Handles, done \in BOOLEAN : CallIsLock(p, h, done) /\ UNCHANGED task
    \/ \E p \in Procs, h \in Handles : CallRelease(p, h) /\ UNCHANGED task
    \/ \E p \in Procs, fail \in BOOLEAN : BeginTxx(p, fail) /\ UNCHANGED task
    \/ \E p \in Procs, fail \in BOOLEAN : TryAcquire(p, fail) /\ UNCHANGED task
    \/ \E p \in Procs, fail \in BOOLEAN : RollbackOnError(p, fail) /\ UNCHANGED task
    \/ \E p \in Procs, fail \in BOOLEAN : RollbackOnRefusal(p, fail) /\ UNCHANGED task
    \/ \E p \in Procs, fail \in BOOLEAN : Probe(p, fail) /\ UNCHANGED task
    \/ \E p \in Procs, fail \in BOOLEAN : ReleaseLost(p, fail) /\ UNCHANGED task
    \/ \E p \in Procs, fail \in BOOLEAN : DoRelease(p, fail) /\ UNCHANGED task
    \/ \E p \in Procs : Return(p) /\ UNCHANGED task
    \/ \E s \in Sessions : StoreDrop(s) /\ UNCHANGED task
    \/ \E p \in Procs : Cancel(p) /\ UNCHANGED task

\* the handles used directly, no helper running
Spec == Init /\ [][Next]_vars

\* ------------------------------------------ WaitForLock and ContextLock
\* A run of one of the two helpers on a handle, beside goroutines that use
\* the handles directly. The helper's handle is not shared for locking: the
\* other goroutines Lock and Release the other handles, and may Release the
\* helper's.

\* the handles exist, created for one name
HelperInit ==
    /\ task = NoTask
    /\ value = [h \in Handles |-> hash(NameMylock)]
    /\ tx = [h \in Handles |-> NoTx]
    /\ mutex = [h \in Handles |-> FALSE]
    /\ sess = [s \in Sessions |-> NoSess]
    /\ proc = [p \in Procs |-> Idle]

\* a handle other than h holds a live session
OthersHold(h) == \E c \in Handles \ {h} : tx[c] # NoTx /\ sess[tx[c]].st = "open"
OthersHoldNext(h) == \E c \in Handles \ {h} : tx'[c] # NoTx /\ sess'[tx'[c]].st = "open"

\* t after a step: held lasts while the others hold the key, up to the return
Track(t) ==
    IF t.kind = "WaitForLock" /\ t.pc # "done"
    THEN [t EXCEPT !.held = @ /\ OthersHoldNext(t.h)]
    ELSE t

\* the goroutines that use the handles directly are in no call
EnvIdle == \A p \in Procs \ {task.p} : proc[p].pc = "idle"

EnvLock(p, h) ==
    /\ EnvIdle /\ h # task.h
    /\ CallLock(p, h, FALSE)
    /\ task' = Track(task)

EnvRelease(p, h) ==
    /\ EnvIdle
    /\ CallRelease(p, h)
    /\ task' = Track(task)

EnvReturn(p) ==
    /\ p # task.p
    /\ Return(p)
    /\ task' = Track(task)

\* a step of a call on the store
CallStep(p) ==
    /\ \E fail \in BOOLEAN :
           \/ BeginTxx(p, fail)
           \/ TryAcquire(p, fail)
           \/ RollbackOnError(p, fail)
           \/ RollbackOnRefusal(p, fail)
           \/ Probe(p, fail)
           \/ ReleaseLost(p, fail)
           \/ DoRelease(p, fail)
    /\ task' = Track(task)

Drop(s) == StoreDrop(s) /\ task' = Track(task)

\* the context given to the helper is cancelled or its deadline passes: the
\* call the helper is in sees it, and so does the context derived from it
CancelCtx ==
    /\ task.pc \in {"select", "lock", "islock"}
    /\ ~task.ctxDone
    /\ proc' = IF task.p # 0 THEN [proc EXCEPT ![task.p].ctxDone = TRUE] ELSE proc
    /\ UNCHANGED <<value, tx, mutex, sess>>
    /\ task' = Track([task EXCEPT !.ctxDone = TRUE, !.newDone = @ \/ task.derived])

\* The ticker's interval elapses and t.C, of capacity one, holds a tick. A
\* goroutine whose select has a case ready takes it well within the
\* interval of a second: no interval elapses while the helper is at its
\* select with its context done.
Tick ==
    /\ \/ task.kind = "WaitForLock" /\ task.pc \in {"select", "lock"}
       \/ task.kind = "ContextLock" /\ task.pc \in {"select", "islock"}
    /\ ~task.tick
    /\ ~(task.pc = "select"
         /\ IF task.kind = "WaitForLock" THEN task.ctxDone ELSE task.newDone)
    /\ task' = [task EXCEPT !.tick = TRUE]
    /\ UNCHANGED <<value, tx, mutex, sess, proc>>

\* handle h is Unlocked and no call through it is in progress
Unused(h) == tx[h] = NoTx /\ \A p \in Procs : proc[p].pc = "idle" \/ proc[p].h # h

\* mutant of WaitForLock: a first attempt due at once, before any interval
WaitForLockEager(h, done) ==
    /\ task.kind = "none"
    /\ task' = [NoTask EXCEPT !.kind = "WaitForLock", !.pc = "select", !.h = h,
                              !.ctxDone = done, !.held = OthersHold(h),
                              !.entryDone = done, !.unlocked = Unused(h),
                              !.tick = TRUE]
    /\ UNCHANGED <<value, tx, mutex, sess, proc>>

\* WaitForLock(ctx, l): the ticker is made, the loop entered
WaitForLock(h, done) ==
    /\ task.kind = "none"
    /\ task' = [NoTask EXCEPT !.kind = "WaitForLock", !.pc = "select", !.h = h,
                              !.ctxDone = done, !.held = OthersHold(h),
                              !.entryDone = done, !.unlocked = Unused(h)]
    /\ UNCHANGED <<value, tx, mutex, sess, proc>>

\* mutant of WaitTimeoutRet: contention reported in place of the timeout
WaitTimeoutRetAcquired(ctxErr) == Wrap(ErrAcquiredLock, <<"timeout to acquired lock">>)

\* what WaitForLock returns when ctx is done, ctxErr being ctx.Err()
WaitTimeoutRet(ctxErr) == Wrap(ctxErr, <<"timeout to acquired lock">>)

\* case <-ctx.Done(): return errors.Wrap(ctx.Err(), "timeout to acquired lock")
WaitTimeout ==
    /\ task.kind = "WaitForLock" /\ task.pc = "select"
    /\ task.ctxDone
    /\ task' = [task EXCEPT !.pc = "done", !.ret = WaitTimeoutRet(ErrCtx)]
    /\ UNCHANGED <<value, tx, mutex, sess, proc>>

\* case <-t.C: err := l.Lock(ctx)
WaitTick(p) ==
    /\ task.kind = "WaitForLock" /\ task.pc = "select"
    /\ task.tick
    /\ CallLock(p, task.h, task.ctxDone)
    /\ task' = Track([task EXCEPT !.pc = "lock", !.p = p, !.tick = FALSE, !.tried = TRUE])

\* mutant of WaitNext: the test of err inverted
WaitNextInverted(t, err) ==
    IF err = Nil
    THEN [t EXCEPT !.pc = "select", !.p = 0]
    ELSE [t EXCEPT !.pc = "done", !.p = 0, !.ret = Nil]

\* if err != nil { continue }; return nil
WaitNext(t, err) ==
    IF err # Nil
    THEN [t EXCEPT !.pc = "select", !.p = 0]
    ELSE [t EXCEPT !.pc = "done", !.p = 0, !.ret = Nil]

\* l.Lock(ctx) returns to WaitForLock
WaitLockReturn ==
    /\ task.kind = "WaitForLock" /\ task.pc = "lock"
    /\ Return(task.p)
    /\ task' = Track(WaitNext(task, proc[task.p].ret))

\* ContextLock(ctx, l): err := l.Lock(ctx)
ContextLock(p, h, done) ==
    /\ task.kind = "none"
    /\ CallLock(p, h, done)
    /\ task' = [NoTask EXCEPT !.kind = "ContextLock", !.pc = "lock", !.h = h, !.p = p,
                              !.ctxDone = done]

\* mutant of ContextLockNext: the monitor started whatever Lock returned
ContextLockNextAlways(t, err) ==
    [t EXCEPT !.pc = IF err # Nil THEN "failed" ELSE "select", !.p = 0, !.ret = err,
              !.derived = TRUE, !.started = TRUE, !.newDone = t.ctxDone]

\* mutant of ContextLockNext: the go statement left out
ContextLockNextNoMonitor(t, err) ==
    IF err # Nil
    THEN [t EXCEPT !.pc = "failed", !.p = 0, !.ret = err]
    ELSE [t EXCEPT !.pc = "exit", !.p = 0, !.derived = TRUE, !.newDone = t.ctxDone]

\* if err != nil { return nil, nil, err }; newCtx, cancel :=
\* context.WithCancel(ctx); go func() {...}(); return newCtx, cancel, nil
ContextLockNext(t, err) ==
    IF err # Nil
    THEN [t EXCEPT !.pc = "failed", !.p = 0, !.ret = err]
    ELSE [t EXCEPT !.pc = "select", !.p = 0, !.derived = TRUE, !.started = TRUE,
                   !.newDone = t.ctxDone]

\* l.Lock(ctx) returns to ContextLock
ContextLockReturn ==
    /\ task.kind = "ContextLock" /\ task.pc = "lock"
    /\ Return(task.p)
    /\ task' = ContextLockNext(task, proc[task.p].ret)

\* the monitor: case <-newCtx.Done(): return
MonitorDone ==
    /\ task.kind = "ContextLock" /\ task.pc = "select"
    /\ task.newDone
    /\ task' = [task EXCEPT !.pc = "exit"]
    /\ UNCHANGED <<value, tx, mutex, sess, proc>>

\* the monitor: case <-t.C: err := l.IsLock(newCtx)
MonitorTick(p) ==
    /\ task.kind = "ContextLock" /\ task.pc = "select"
    /\ task.tick
    /\ CallIsLock(p, task.h, task.newDone)
    /\ task' = [task EXCEPT !.pc = "islock", !.p = p, !.tick = FALSE]

\* mutants of MonitorNext: the test of err inverted, and cancel() left out
MonitorNextInverted(t, err) ==
    IF err = Nil
    THEN [t EXCEPT !.pc = "exit", !.p = 0, !.newDone = TRUE]
    ELSE [t EXCEPT !.pc = "select", !.p = 0]
MonitorNextNoCancel(t, err) ==
    IF err # Nil
    THEN [t EXCEPT !.pc = "exit", !.p = 0]
    ELSE [t EXCEPT !.pc = "select", !.p = 0]

\* mutant of MonitorNext: cancel() without the return after it
MonitorNextNoReturn(t, err) ==
    IF err # Nil
    THEN [t EXCEPT !.pc = "select", !.p = 0, !.newDone = TRUE]
    ELSE [t EXCEPT !.pc = "select", !.p = 0]

\* if err != nil { cancel(); return }, else the loop goes on
MonitorNext(t, err) ==
    IF err # Nil
    THEN [t EXCEPT !.pc = "exit", !.p = 0, !.newDone = TRUE]
    ELSE [t EXCEPT !.pc = "select", !.p = 0]

\* l.IsLock(newCtx) returns to the monitor
MonitorReturn ==
    /\ task.kind = "ContextLock" /\ task.pc = "islock"
    /\ Return(task.p)
    /\ task' = MonitorNext(task, proc[task.p].ret)

\* the caller of ContextLock calls the cancel function it was given
CancelFunc ==
    /\ task.kind = "ContextLock" /\ task.derived
    /\ ~task.cancelled
    /\ proc' = IF task.pc = "islock" THEN [proc EXCEPT ![task.p].ctxDone = TRUE] ELSE proc
    /\ task' = [task EXCEPT !.cancelled = TRUE, !.newDone = TRUE]
    /\ UNCHANGED <<value, tx, mutex, sess>>

HelperNext ==
    \/ \E p \in Procs, h \in Handles : EnvLock(p, h)
    \/ \E p \in Procs, h \in Handles : EnvRelease(p, h)
    \/ \E p \in Procs : EnvReturn(p)
    \/ \E p \in Procs : CallStep(p)
    \/ \E s \in Sessions : Drop(s)
    \/ CancelCtx
    \/ Tick
    \/ \E h \in Handles, done \in BOOLEAN : WaitForLock(h, done)
    \/ WaitTimeout
    \/ \E p \in Procs : WaitTick(p)
    \/ WaitLockReturn
    \/ \E p \in Procs, h \in Handles, done \in BOOLEAN : ContextLock(p, h, done)
    \/ ContextLockReturn
    \/ MonitorDone
    \/ \E p \in Procs : MonitorTick(p)
    \/ MonitorReturn
    \/ CancelFunc

HelperSpec == HelperInit /\ [][HelperNext]_vars

\* Code that runs goes on: a call in progress takes its next step, the
\* ticker fires again, a goroutine at a select takes a case that is ready,
\* and a goroutine waiting for the handle's mutex gets it in the end
\* (sync.Mutex hands it over to a starving waiter).
FairHelperSpec ==
    /\ HelperSpec
    /\ \A p \in Procs : WF_vars(CallStep(p))
    /\ \A p \in Procs : WF_vars(EnvReturn(p))
    /\ WF_vars(Tick)
    /\ SF_vars(\E p \in Procs : MonitorTick(p))
    /\ WF_vars(MonitorDone)
    /\ WF_vars(MonitorReturn)

\* the step a call takes when the store answers its statement
Answered(p) ==
    /\ \/ BeginTxx(p, FALSE)
       \/ TryAcquire(p, FALSE)
       \/ RollbackOnError(p, FALSE)
       \/ RollbackOnRefusal(p, FALSE)
       \/ Probe(p, FALSE)
       \/ ReleaseLost(p, FALSE)
       \/ DoRelease(p, FALSE)
    /\ UNCHANGED task

\* the handles used directly; a call in progress goes on, whatever the store
\* answers, and is not left without an answer
FairSpec == Spec /\ \A p \in Procs : WF_vars(Answered(p))

\* ------------------------------------------ the acquisitions of a handle
\* the acquisitions that are counted
MaxCycles == 2

\* t after a step: the handle that becomes Locked first is followed, and
\* its changes from Unlocked to Locked counted up to MaxCycles
Observe(t) ==
    LET got == {h \in Handles : tx[h] = NoTx /\ tx'[h] # NoTx} IN
    IF got = {} THEN t
    ELSE IF t.h = 0 THEN [t EXCEPT !.h = CHOOSE h \in got : TRUE, !.locked = 1]
    ELSE IF t.h \in got /\ t.locked < MaxCycles THEN [t EXCEPT !.locked = @ + 1]
    ELSE t

\* the handles used directly, with contexts that are not done
ReuseNext ==
    \/ \E p \in Procs, h \in Handles : CallLock(p, h, FALSE) /\ task' = Observe(task)
    \/ \E p \in Procs, h \in Handles : CallIsLock(p, h, FALSE) /\ task' = Observe(task)
    \/ \E p \in Procs, h \in Handles : CallRelease(p, h) /\ task' = Observe(task)
    \/ \E p \in Procs, fail \in BOOLEAN : BeginTxx(p, fail) /\ task' = Observe(task)
    \/ \E p \in Procs, fail \in BOOLEAN : TryAcquire(p, fail) /\ task' = Observe(task)
    \/ \E p \in Procs, fail \in BOOLEAN : RollbackOnError(p, fail) /\ task' = Observe(task)
    \/ \E p \in Procs, fail \in BOOLEAN : RollbackOnRefusal(p, fail) /\ task' = Observe(task)
    \/ \E p \in Procs, fail \in BOOLEAN : Probe(p, fail) /\ task' = Observe(task)
    \/ \E p \in Procs, fail \in BOOLEAN : ReleaseLost(p, fail) /\ task' = Observe(task)
    \/ \E p \in Procs, fail \in BOOLEAN : DoRelease(p, fail) /\ task' = Observe(task)
    \/ \E p \in Procs : Return(p) /\ task' = Observe(task)
    \/ \E s \in Sessions : StoreDrop(s) /\ task' = Observe(task)

\* the handles, created for one name, used over and over
ReuseSpec == HelperInit /\ [][ReuseNext]_vars

\* ------------------------------------------------------ claim vocabulary
\* handles a and b are two handles for one key
SameKey(a, b) == a # b /\ value[a] # NoKey /\ value[a] = value[b]

\* handle h is Locked and its session is alive in the store
Holds(h) == tx[h] # NoTx /\ Alive(tx[h])

\* the step of goroutine p that fixes what its call returns
Decides(p) == proc[p].pc # "ret" /\ proc'[p].pc = "ret"

\* a Lock call that went for a fresh acquisition and is about to return
FreshLock(p) == proc[p].op = "Lock" /\ proc[p].pc = "ret" /\ proc[p].nBegin = 1

\* ------------------------------------------------------------------ C1
\* C1: once handle A's Lock has returned success and A has not called
\* Release, every Lock call through another handle B for the same name
\* returns an error and leaves B Unlocked; stated here for the states in
\* which A's session is still alive in the store.
C1_MutualExclusion ==
    [][\A p \in Procs : \A a \in Handles :
          (/\ Decides(p) /\ proc[p].op = "Lock"
           /\ SameKey(a, proc[p].h)
           /\ Holds(a) /\ ~mutex[a])
          => (/\ proc'[p].ret # Nil
              /\ tx'[proc[p].h] = NoTx)]_vars

\* ------------------------------------------------------------------ C2
\* C2: at most one live session holds the advisory lock of a key, and no
\* Lock call returns success to a handle while a live session owned by
\* another handle holds that key.
C2_OneHolder ==
    [][/\ \A s, o \in Sessions :
            (/\ s # o
             /\ sess'[s].st = "open" /\ sess'[o].st = "open"
             /\ sess'[s].lock # NoKey)
            => sess'[s].lock # sess'[o].lock
       /\ \A p \in Procs : \A a \in Handles :
            (/\ Decides(p) /\ proc[p].op = "Lock" /\ proc'[p].ret = Nil
             /\ a # proc[p].h /\ tx'[a] # NoTx)
            => ~(/\ sess'[tx'[a]].st = "open"
                 /\ sess'[tx'[a]].lock = value[proc[p].h])]_vars

\* ------------------------------------------------------------------ C3
\* C3: cancelling a context does not release a held lock: the cancellation
\* itself changes no handle and no session, and a call that fails only
\* because its context is done leaves every Locked handle whose session is
\* alive Locked, that session alive; only Release unlocks such a handle.
C3_CancelNeverReleases ==
    [][\A p \in Procs :
          /\ Cancel(p) => (tx' = tx /\ sess' = sess)
          /\ (/\ proc'[p] # proc[p]
              /\ proc[p].op \in {"Lock", "IsLock"}
              /\ proc[p].ctxDone
              /\ proc[p].err \in {Nil, ErrCtx})
             => \A h \in Handles :
                    Holds(h) => (tx'[h] = tx[h] /\ sess'[tx[h]].st = "open")]_vars

\* ------------------------------------------------------------------ C4
\* C4: Release frees the resource: the Release of a Locked handle whose
\* session is alive leaves no live session holding the key, and from then
\* on, until some handle acquires the key, a Lock through an Unlocked
\* handle for that name whose store operations do not fail is granted the
\* key and returns success with the handle Locked.
C4_ReleaseFrees ==
    [][\A p \in Procs :
          LET h == proc[p].h IN
          /\ (proc[p].pc = "end" /\ proc'[p].pc = "ret" /\ Holds(h))
             => (/\ tx'[h] = NoTx
                 /\ \A s \in Sessions :
                        ~(sess'[s].st = "open" /\ sess'[s].lock = value[h]))
          /\ (/\ proc[p].pc = "try" /\ proc'[p].pc # "try"
              /\ proc'[p].err = Nil
              /\ \A a \in Handles : SameKey(a, h) => ~Holds(a))
             => (/\ proc'[p].pc = "ret" /\ proc'[p].ret = Nil
                 /\ tx'[h] = proc[p].tx
                 /\ sess'[proc[p].tx] = [st |-> "open", lock |-> value[h]])]_vars

\* A's Release has ended its live session and B's Lock was then granted
C4_Witness ==
    \E p, q \in Procs :
        /\ proc[p].op = "Release" /\ proc[p].pc = "ret"
        /\ proc[p].nEnd = 1 /\ proc[p].rbErr = Nil
        /\ FreshLock(q) /\ proc[q].nTry = 1 /\ proc[q].ret = Nil
        /\ SameKey(proc[p].h, proc[q].h)
        /\ Holds(proc[q].h)

\* ------------------------------------------------------------------ C5
\* C5: a Lock call through a Locked handle whose session is alive returns
\* success, opens no session, makes no try-acquire (it runs the liveness
\* probe only), and leaves the handle Locked with the same session.
C5_Reentrant ==
    [][\A p \in Procs :
          /\ (/\ proc[p].pc = "idle" /\ proc'[p].op = "Lock"
              /\ tx[proc'[p].h] # NoTx)
             => proc'[p].pc = "probe"
          /\ (/\ proc[p].op = "Lock" /\ proc[p].pc = "probe" /\ proc'[p].pc # "probe"
              /\ Holds(proc[p].h))
             => (/\ proc'[p].pc = "ret" /\ proc'[p].ret = Nil
                 /\ tx' = tx /\ sess' = sess
                 /\ proc'[p].nBegin = 0 /\ proc'[p].nTry = 0)]_vars

\* ------------------------------------------------------------------ C6
\* C6: Release on an Unlocked handle returns success, ends no session and
\* changes no state; and every Release leaves the handle Unlocked, so each
\* Release that follows the first is such a no-op.
C6_IdempotentRelease ==
    [][\A p \in Procs :
          (proc[p].pc = "end" /\ proc'[p].pc = "ret")
          => (/\ tx'[proc[p].h] = NoTx
              /\ tx[proc[p].h] = NoTx
                    => (/\ proc'[p].ret = Nil /\ proc'[p].nEnd = 0
                        /\ tx' = tx /\ sess' = sess /\ value' = value
                        /\ mutex' = mutex))]_vars

\* a Release on an Unlocked handle has returned success without a Rollback
C6_Witness ==
    \E p \in Procs :
        /\ proc[p].op = "Release" /\ proc[p].pc = "ret"
        /\ proc[p].nEnd = 0 /\ proc[p].ret = Nil
        /\ tx[proc[p].h] = NoTx

\* ------------------------------------------------------------------ C7
\* C7: resources are independent: a step of a call on a handle leaves the
\* handles, calls and sessions of every other key unchanged, and whether a
\* try-acquire is granted depends on the holders of its own key only.
C7_Independence ==
    [][\A p \in Procs :
          LET h == IF proc[p].pc = "idle" THEN proc'[p].h ELSE proc[p].h IN
          /\ (proc'[p] # proc[p])
             => \A x \in Handles :
                    value[x] # value[h]
                    => (/\ tx'[x] = tx[x] /\ mutex'[x] = mutex[x] /\ value'[x] = value[x]
                        /\ tx[x] # NoTx => sess'[tx[x]] = sess[tx[x]]
                        /\ \A q \in Procs :
                               (proc[q].pc # "idle" /\ proc[q].h = x)
                               => (/\ proc'[q] = proc[q]
                                   /\ proc[q].tx # NoTx
                                         => sess'[proc[q].tx] = sess[proc[q].tx]))
          /\ (proc[p].pc = "try" /\ proc'[p].pc \in {"ret", "rb_busy"})
             => (proc'[p].pc = "ret"
                    <=> \A a \in Handles : SameKey(a, h) => ~Holds(a))]_vars

\* two handles of different keys hold their locks at the same time
C7_Witness ==
    \E x, y \in Handles :
        /\ value[x] # NoKey /\ value[y] # NoKey /\ value[x] # value[y]
        /\ Holds(x) /\ Holds(y)

\* ------------------------------------------------------------------ C8
\* the two handles of calls p and q are the only ones of their key
OnlyTwo(p, q) ==
    /\ SameKey(proc[p].h, proc[q].h)
    /\ \A x \in Handles \ {proc[p].h, proc[q].h} : value[x] # value[proc[p].h]

\* C8: of two concurrent Lock calls through two Unlocked handles for one
\* free key, exactly one returns success and the other returns
\* ErrAcquiredLock; stated here for the calls whose BeginTxx and try-acquire
\* met no error and whose stored session the store has not ended.
C8_ExactlyOne ==
    \A p, q \in Procs :
        (/\ p # q /\ FreshLock(p) /\ FreshLock(q) /\ OnlyTwo(p, q)
         /\ proc[p].err = Nil /\ proc[q].err = Nil
         /\ \A r \in {p, q} : tx[proc[r].h] # NoTx => Holds(proc[r].h))
        => \/ proc[p].ret = Nil /\ proc[q].ret = ErrAcquiredLock
           \/ proc[q].ret = Nil /\ proc[p].ret = ErrAcquiredLock

\* ------------------------------------------------------------------ C9
\* C9: a Lock whose try-acquire was refused returns ErrAcquiredLock, has
\* ended the session it opened and leaves the handle Unlocked, whatever
\* ending the session returned.
C9_RefusedLock ==
    [][\A p \in Procs :
          (proc[p].pc = "rb_busy" /\ proc'[p].pc = "ret")
          => (/\ Is(proc'[p].ret, ErrAcquiredLock)
              /\ sess'[proc[p].tx].st = "none"
              /\ tx'[proc[p].h] = NoTx)]_vars

\* ----------------------------------------------------------------- C10
\* C10: a Lock on an Unlocked handle that met an error of the store while
\* opening the session or running the try-acquire returns a non-nil error
\* that carries it, leaves open no session it opened, and leaves the handle
\* Unlocked.
C10_StoreErrorSurfaced ==
    \A p \in Procs :
        (FreshLock(p) /\ proc[p].err # Nil)
        => (/\ proc[p].ret # Nil
            /\ Is(proc[p].ret, proc[p].err)
            /\ tx[proc[p].h] = NoTx
            /\ proc[p].tx # NoTx => sess[proc[p].tx].st = "none")

\* the try-acquire met an error on a session the call had opened
C10_Witness ==
    \E p \in Procs :
        /\ FreshLock(p) /\ proc[p].nTry = 1
        /\ proc[p].err = ErrStore
        /\ proc[p].rbErr # Nil

\* ----------------------------------------------------------------- C11
\* C11: IsLock returns success only when the handle has a session, that
\* session is alive in the store and the call's probe on it succeeded; it
\* never returns success on an Unlocked handle or on a handle whose
\* session the store has ended.
C11_IsLockSound ==
    [][\A p \in Procs :
          (Decides(p) /\ proc[p].op = "IsLock" /\ proc'[p].ret = Nil)
          => (/\ Holds(proc[p].h)
              /\ proc[p].pc = "probe" /\ proc'[p].nProbe = 1
              /\ ~proc[p].ctxDone)]_vars

\* an IsLock on a Locked handle with a live session has probed and succeeded
C11_Witness ==
    \E p \in Procs :
        /\ proc[p].op = "IsLock" /\ proc[p].pc = "ret"
        /\ proc[p].nProbe = 1 /\ proc[p].ret = Nil
        /\ Holds(proc[p].h)

\* ----------------------------------------------------------------- C12
\* C12: when the store has ended the session of a Locked handle, the probe
\* of the next IsLock or Lock through the handle fails, and the call
\* returns an error that is ErrAcquiredLock with the handle Unlocked and
\* its session reference cleared, whatever the teardown returned.
C12_LossDetected ==
    [][\A p \in Procs :
          LET h == proc[p].h IN
          /\ (/\ proc[p].pc = "probe" /\ proc'[p].pc # "probe"
              /\ tx[h] # NoTx /\ ~Alive(tx[h]))
             => (proc'[p].pc = "lost" /\ proc'[p].err # Nil)
          /\ (proc[p].pc = "lost" /\ proc'[p].pc # "lost")
             => (/\ proc'[p].pc = "ret"
                 /\ Is(proc'[p].ret, ErrAcquiredLock)
                 /\ tx'[h] = NoTx)]_vars

\* an IsLock has met a session the store had ended, the teardown failed too
C12_Witness ==
    \E p \in Procs :
        /\ proc[p].op = "IsLock" /\ proc[p].pc = "ret"
        /\ proc[p].nProbe = 1 /\ ~proc[p].ctxDone
        /\ proc[p].err = ErrStore /\ proc[p].rbErr = ErrStore
        /\ Is(proc[p].ret, ErrAcquiredLock)
        /\ tx[proc[p].h] = NoTx

\* ----------------------------------------------------------------- C13
\* C13: IsLock on an Unlocked handle returns an error that wraps
\* ErrAcquiredLock without a statement on the store, and leaves the handle
\* Unlocked.
C13_IsLockUnlocked ==
    [][\A p \in Procs :
          (/\ proc[p].op = "IsLock" /\ proc[p].pc = "probe" /\ proc'[p].pc # "probe"
           /\ tx[proc[p].h] = NoTx)
          => (/\ proc'[p].pc = "ret"
              /\ Is(proc'[p].ret, ErrAcquiredLock)
              /\ Len(proc'[p].ret) > 1
              /\ proc'[p].nProbe = 0 /\ proc'[p].nBegin = 0
              /\ proc'[p].nTry = 0 /\ proc'[p].nEnd = 0
              /\ sess' = sess /\ tx' = tx)]_vars

\* an IsLock on an Unlocked handle is about to return its error
C13_Witness ==
    \E p \in Procs :
        /\ proc[p].op = "IsLock" /\ proc[p].pc = "ret"
        /\ proc[p].nProbe = 0
        /\ proc[p].ret = <<"does not lock the ressource">> \o ErrAcquiredLock
        /\ tx[proc[p].h] = NoTx

\* ----------------------------------------------------------------- C14
\* C14: Release on a Locked handle leaves the handle Unlocked and its
\* session over, also when ending the session returns a store error, and
\* then that error is what Release returns.
C14_ReleaseAlwaysUnlocks ==
    [][\A p \in Procs :
          LET h == proc[p].h IN
          (proc[p].pc = "end" /\ proc'[p].pc # "end" /\ tx[h] # NoTx)
          => (/\ proc'[p].pc = "ret"
              /\ tx'[h] = NoTx
              /\ sess'[tx[h]].st = "none"
              /\ proc'[p].nEnd = 1
              /\ ~Alive(tx[h]) => proc'[p].ret = ErrStore
              /\ proc'[p].ret \in {Nil, ErrStore})]_vars

\* a Release whose Rollback returned an error has left the handle Unlocked
C14_Witness ==
    \E p \in Procs :
        /\ proc[p].op = "Release" /\ proc[p].pc = "ret"
        /\ proc[p].nEnd = 1 /\ proc[p].ret = ErrStore
        /\ tx[proc[p].h] = NoTx

\* ----------------------------------------------------------------- C15
\* C15: after ContextLock has returned its context, as long as the handle's
\* session is alive, the parent context is not done and the returned cancel
\* function has not been called, the derived context is not done.
C15_ContextKeptAlive ==
    (/\ task.kind = "ContextLock" /\ task.derived
     /\ Holds(task.h)
     /\ ~task.ctxDone /\ ~task.cancelled)
    => ~task.newDone

\* the monitor's IsLock has found the lock held, the derived context lives on
C15_Witness ==
    /\ task.kind = "ContextLock" /\ task.pc = "islock"
    /\ proc[task.p].pc = "ret" /\ proc[task.p].ret = Nil /\ proc[task.p].nProbe = 1
    /\ Holds(task.h)
    /\ ~task.newDone

C17_ContextLockFails ==
    [][/\ (/\ task.kind = "ContextLock" /\ task.pc = "lock" /\ task'.pc # "lock"
           /\ proc[task.p].ret # Nil)
          => (/\ task'.pc = "failed"
              /\ task'.ret = proc[task.p].ret
              /\ ~task'.derived /\ ~task'.started /\ ~task'.newDone
              /\ tx' = tx /\ sess' = sess)
       /\ task.pc = "failed" => task' = task]_vars

\* ContextLock has returned the ErrAcquiredLock of its Lock
C17_Witness ==
    /\ task.kind = "ContextLock" /\ task.pc = "failed"
    /\ task.ret = ErrAcquiredLock
    /\ OthersHold(task.h)

\* ----------------------------------------------------------------- C18
\* C18: WaitForLock returns nil only when a Lock call it made through the
\* handle has just returned success, it returns at that first success, and
\* it makes no Lock call after it has returned.
C18_WaitReturnsOnSuccess ==
    [][task.kind = "WaitForLock" =>
          /\ (task.pc # "done" /\ task'.pc = "done" /\ task'.ret = Nil)
             => (/\ task.pc = "lock"
                 /\ proc[task.p].op = "Lock" /\ proc[task.p].h = task.h
                 /\ proc[task.p].pc = "ret" /\ proc[task.p].ret = Nil)
          /\ (task.pc = "lock" /\ task'.pc # "lock" /\ proc[task.p].ret = Nil)
             => (task'.pc = "done" /\ task'.ret = Nil)
          /\ task.pc = "done" => task' = task]_vars

\* WaitForLock has returned nil and the handle holds the lock
C18_Witness ==
    /\ task.kind = "WaitForLock" /\ task.pc = "done"
    /\ task.ret = Nil
    /\ Holds(task.h)

\* ----------------------------------------------------------------- C19
\* C19: when WaitForLock ends because its context is done, it returns a
\* non-nil error that wraps the context's error with the timeout message
\* and is not ErrAcquiredLock; it returns no other error.
C19_TimeoutError ==
    [][task.kind = "WaitForLock" =>
          /\ (task.pc = "select" /\ task'.pc = "done")
             => (/\ task.ctxDone
                 /\ task'.ret = <<"timeout to acquired lock">> \o ErrCtx
                 /\ Is(task'.ret, ErrCtx)
                 /\ ~Is(task'.ret, ErrAcquiredLock))
          /\ (task'.pc = "done" /\ task'.ret # Nil)
             => Is(task'.ret, ErrCtx)]_vars

\* WaitForLock has returned the timeout error while another handle holds
C19_Witness ==
    /\ task.kind = "WaitForLock" /\ task.pc = "done"
    /\ task.ret # Nil /\ task.ctxDone
    /\ OthersHold(task.h)

\* ----------------------------------------------------------------- C20
\* C20: a WaitForLock during which other handles hold the key all along
\* does not return before its context is done, and what it returns is the
\* timeout error.
C20_WaitEndsByTimeout ==
    (task.kind = "WaitForLock" /\ task.pc = "done" /\ task.held)
    => (task.ctxDone /\ Is(task.ret, ErrCtx))

\* ----------------------------------------------------------------- C21
\* C21: when the holder has given the key up, no other handle holds it and
\* the waiter's context is not done, a WaitForLock that returns nil
\* returns with its handle Locked.
C21_WaitAcquires ==
    [][(/\ task.kind = "WaitForLock"
        /\ task.pc # "done" /\ task'.pc = "done" /\ task'.ret = Nil
        /\ ~task.ctxDone
        /\ ~OthersHold(task.h))
       => tx'[task.h] # NoTx]_vars

\* ----------------------------------------------------------------- C22
\* C22: New opens no session and makes no try-acquire, the handle it
\* returns is Unlocked, and it changes no other handle, session or call.
C22_NewAcquiresNothing ==
    [][\A h \in Handles :
          (value[h] = NoKey /\ value'[h] # NoKey)
          => (/\ value'[h] \in Keys
              /\ tx'[h] = NoTx /\ ~mutex'[h]
              /\ sess' = sess /\ tx' = tx /\ mutex' = mutex /\ proc' = proc
              /\ \A o \in Handles \ {h} : value'[o] = value[o])]_vars

\* a handle was made while another one holds the lock of the same name
C22_Witness ==
    \E h, o \in Handles :
        /\ SameKey(h, o) /\ Holds(o)
        /\ tx[h] = NoTx /\ ~mutex[h]
        /\ \A s \in Sessions \ {tx[o]} : sess[s] = NoSess

\* ----------------------------------------------------------------- C23
\* C23: every Lock call returns in the end, also while another handle
\* holds the key and never releases it.
C23_LockReturns ==
    \A p \in Procs :
        (proc[p].op = "Lock" /\ proc[p].pc # "idle") ~> (proc[p].pc = "ret")

\* a Lock is about to return its refusal, the holder still holding
C23_Witness ==
    \E p \in Procs : \E a \in Handles :
        /\ proc[p].op = "Lock" /\ proc[p].pc = "ret" /\ proc[p].nTry = 1
        /\ proc[p].nEnd = 1 /\ proc[p].rbErr = Nil
        /\ Is(proc[p].ret, ErrAcquiredLock)
        /\ SameKey(a, proc[p].h) /\ Holds(a) /\ ~mutex[a]

\* ----------------------------------------------------------------- C24
\* the text of error e is part of error r
Carries(r, e) == \E i \in 1..Len(r) : r[i] = e[1]

\* C24: a Lock or IsLock call that met an error of the store, opening the
\* session, in the try-acquire, in the probe or ending a session, returns a
\* non-nil error that carries the store's error.
C24_StoreErrorsReturned ==
    \A p \in Procs :
        (/\ proc[p].pc = "ret" /\ proc[p].op \in {"Lock", "IsLock"}
         /\ (proc[p].err = ErrStore \/ proc[p].rbErr = ErrStore))
        => (proc[p].ret # Nil /\ Carries(proc[p].ret, ErrStore))

\* ----------------------------------------------------------------- C25
\* C25: a Lock on a Locked handle whose session is over clears the handle
\* to Unlocked and returns an error that is ErrAcquiredLock; that call
\* opens no session and makes no try-acquire.
C25_LockAfterLoss ==
    [][\A p \in Procs :
          LET h == proc[p].h IN
          proc[p].op = "Lock" =>
              /\ (/\ proc[p].pc = "probe" /\ proc'[p].pc # "probe"
                  /\ tx[h] # NoTx /\ ~Alive(tx[h]))
                 => proc'[p].pc = "lost"
              /\ (proc[p].pc = "lost" /\ proc'[p].pc # "lost")
                 => (/\ proc'[p].pc = "ret"
                     /\ Is(proc'[p].ret, ErrAcquiredLock)
                     /\ tx'[h] = NoTx
                     /\ proc'[p].nBegin = 0 /\ proc'[p].nTry = 0
                     /\ \A s \in Sessions : sess'[s].st = "open" => sess[s].st = "open")]_vars

\* a Lock has met the loss of its session and is about to return
C25_Witness ==
    \E p \in Procs :
        /\ proc[p].op = "Lock" /\ proc[p].pc = "ret"
        /\ proc[p].nProbe = 1 /\ proc[p].nBegin = 0 /\ ~proc[p].ctxDone
        /\ proc[p].err = ErrStore /\ proc[p].rbErr = ErrStore
        /\ Is(proc[p].ret, ErrAcquiredLock)
        /\ tx[proc[p].h] = NoTx

\* ----------------------------------------------------------------- C26
\* the calls in progress through handle h
CallsOn(h) == {p \in Procs : proc[p].pc # "idle" /\ proc[p].h = h}

\* C26: calls through one handle run one at a time, under the handle's
\* mutex from their first statement to their return, so that they take
\* effect in the order they got the mutex: a fresh acquisition runs on an
\* Unlocked handle only, no two handles or calls own the same session, and
\* every session that exists is a handle's stored session or the session
\* of the acquisition in progress.
C26_Serialized ==
    /\ \A h \in Handles :
          /\ mutex[h] <=> CallsOn(h) # {}
          /\ Cardinality(CallsOn(h)) <= 1
    /\ \A p \in Procs :
          proc[p].pc \in {"begin", "try", "rb_err", "rb_busy"}
          => (proc[p].op = "Lock" /\ tx[proc[p].h] = NoTx)
    /\ \A a, b \in Handles : (a # b /\ tx[a] # NoTx) => tx[a] # tx[b]
    /\ \A s \in Sessions :
          sess[s].st # "none"
          => \/ \E h \in Handles : tx[h] = s
             \/ \E p \in Procs :
                    proc[p].pc \in {"try", "rb_err", "rb_busy"} /\ proc[p].tx = s

\* a Lock through a handle has stored its session while the next call
\* through the same handle could not start before it returned
C26_Witness ==
    \E p \in Procs :
        /\ proc[p].op = "Lock" /\ proc[p].pc = "ret" /\ proc[p].nTry = 1
        /\ proc[p].ret = Nil /\ tx[proc[p].h] = proc[p].tx
        /\ mutex[proc[p].h]
        /\ \E q \in Procs : q # p /\ proc[q].pc = "idle"

\* ----------------------------------------------------------------- C27
\* C27: at the first IsLock that returns an error the monitor of
\* ContextLock cancels the derived context and exits, and after that it
\* makes no call on the handle.
C27_MonitorStops ==
    [][task.kind = "ContextLock" =>
          /\ (task.pc = "islock" /\ task'.pc # "islock" /\ proc[task.p].ret # Nil)
             => (task'.pc = "exit" /\ task'.newDone /\ task'.p = 0)
          /\ task.pc = "exit" => (task'.pc = "exit" /\ task'.p = 0)]_vars

\* the monitor has exited on a failed probe, no call is in progress
C27_Witness ==
    /\ task.kind = "ContextLock" /\ task.pc = "exit"
    /\ task.newDone /\ ~task.cancelled /\ ~task.ctxDone
    /\ tx[task.h] = NoTx /\ ~mutex[task.h]
    /\ \A p \in Procs : proc[p].pc = "idle"

\* ----------------------------------------------------------------- C28
\* C28: once the derived context is done, by the returned cancel function
\* or by the parent context, the monitor of ContextLock exits in the end;
\* and a monitor is started by a ContextLock that returns success, by no
\* other.
C28_MonitorTerminates ==
    /\ (task.kind = "ContextLock" /\ task.started /\ task.newDone) ~> (task.pc = "exit")
    /\ [](task.kind = "ContextLock"
            => /\ task.started <=> task.pc \in {"select", "islock", "exit"}
               /\ task.started <=> task.derived
               /\ task.pc = "failed" => ~task.started)

\* the monitor has exited after the caller cancelled, the lock still held
C28_Witness ==
    /\ task.kind = "ContextLock" /\ task.pc = "exit"
    /\ task.cancelled /\ ~task.ctxDone
    /\ Holds(task.h)

\* ----------------------------------------------------------------- C29
\* C29: one Lock call opens at most one session and makes at most one
\* try-acquire, one IsLock call makes at most one probe and opens no
\* session.
C29_NoRetry ==
    \A p \in Procs :
        /\ proc[p].nBegin <= 1 /\ proc[p].nTry <= 1 /\ proc[p].nProbe <= 1
        /\ proc[p].nTry <= proc[p].nBegin
        /\ proc[p].op = "IsLock" => (proc[p].nBegin = 0 /\ proc[p].nTry = 0)

\* a Lock was refused once and is about to return, the key still held
C29_Witness ==
    \E p \in Procs :
        /\ proc[p].op = "Lock" /\ proc[p].pc = "ret"
        /\ proc[p].nBegin = 1 /\ proc[p].nTry = 1 /\ proc[p].nProbe = 0
        /\ proc[p].ret = ErrAcquiredLock
        /\ OthersHold(proc[p].h)

\* ----------------------------------------------------------------- C30
\* C30: a handle refers to no session (Unlocked) or to one (Locked); it
\* becomes Locked only in a Lock call through it whose try-acquire was
\* granted, it becomes Unlocked only in a Release through it or after a
\* failed probe of a Lock or IsLock through it, and a Locked handle keeps
\* its session till then.
C30_HandleStates ==
    [][\A h \in Handles :
          /\ tx'[h] \in Sessions \cup {NoTx}
          /\ (tx[h] = NoTx /\ tx'[h] # NoTx)
             => \E p \in Procs :
                    /\ proc[p].h = h /\ proc[p].op = "Lock"
                    /\ proc[p].pc = "try" /\ proc'[p].pc = "ret" /\ proc'[p].ret = Nil
                    /\ tx'[h] = proc[p].tx
                    /\ sess'[tx'[h]] = [st |-> "open", lock |-> value[h]]
          /\ (tx[h] # NoTx /\ tx'[h] # tx[h])
             => (/\ tx'[h] = NoTx
                 /\ \E p \in Procs :
                        /\ proc[p].h = h
                        /\ \/ proc[p].op = "Release" /\ proc[p].pc = "end"
                           \/ /\ proc[p].op \in {"Lock", "IsLock"}
                              /\ proc[p].pc = "lost" /\ proc[p].err # Nil)]_vars

\* a handle was Locked by a Lock and is Unlocked again after a failed probe
C30_Witness ==
    \E p \in Procs :
        /\ proc[p].op = "IsLock" /\ proc[p].pc = "ret"
        /\ proc[p].nProbe = 1 /\ proc[p].err # Nil /\ proc[p].nEnd = 1
        /\ tx[proc[p].h] = NoTx

\* ----------------------------------------------------------------- C31
\* C31: whenever a Lock call returns nil the handle is Locked, holding a
\* session on which the call's try-acquire or its probe succeeded; Lock
\* never returns nil and leaves the handle Unlocked.
C31_SuccessMeansOwnership ==
    [][\A p \in Procs :
          (Decides(p) /\ proc[p].op = "Lock" /\ proc'[p].ret = Nil)
          => (/\ tx'[proc[p].h] # NoTx
              /\ \/ proc[p].pc = "try" /\ tx'[proc[p].h] = proc[p].tx
                 \/ proc[p].pc = "probe" /\ tx'[proc[p].h] = tx[proc[p].h])]_vars

\* ----------------------------------------------------------------- C32
\* the sessions the client has not ended that handle h refers to
Owned(h) == {s \in Sessions : sess[s].st # "none" /\ tx[h] = s}

\* C32: between calls every session the client has opened and not ended
\* is the stored session of exactly one handle, a Locked handle has one
\* and an Unlocked handle none; and when a Lock call returns without its
\* session stored in the handle, the session it opened has been ended.
C32_NoSessionLeak ==
    /\ (\A p \in Procs : proc[p].pc = "idle")
       => /\ \A s \in Sessions :
                 sess[s].st # "none" => Cardinality({h \in Handles : tx[h] = s}) = 1
          /\ \A h \in Handles :
                 Cardinality(Owned(h)) = IF tx[h] # NoTx THEN 1 ELSE 0
    /\ \A p \in Procs :
          (/\ proc[p].pc = "ret" /\ proc[p].op = "Lock"
           /\ proc[p].tx # NoTx /\ tx[proc[p].h] # proc[p].tx)
          => sess[proc[p].tx].st = "none"

\* a refused Lock has returned and left no session behind, between calls
C32_Witness ==
    /\ \A p \in Procs : proc[p].pc = "idle"
    /\ \E a, b \in Handles :
          /\ SameKey(a, b) /\ Holds(a) /\ tx[b] = NoTx
          /\ \A s \in Sessions \ {tx[a]} : sess[s].st = "none"

\* ----------------------------------------------------------------- C33
\* C33: a step of a call through handle B leaves the session reference of
\* every other handle A and the session A refers to unchanged, also when A
\* and B have the same key.
C33_OthersUntouched ==
    [][\A p \in Procs :
          (proc[p].pc # "idle" /\ proc'[p] # proc[p])
          => \A a \in Handles \ {proc[p].h} :
                 /\ tx'[a] = tx[a]
                 /\ tx[a] # NoTx => sess'[tx[a]] = sess[tx[a]]]_vars

\* a Release on an Unlocked B has returned, A of the same key still holds
C33_Witness ==
    \E p \in Procs : \E a \in Handles :
        /\ proc[p].op = "Release" /\ proc[p].pc = "ret" /\ proc[p].nEnd = 0
        /\ SameKey(a, proc[p].h) /\ Holds(a)

\* ----------------------------------------------------------------- C37
\* C37: a call that returns, with success or with an error, gives the
\* handle's mutex up, and the mutex of a handle is held only while a call
\* through the handle is in progress.
C37_GuardReleased ==
    [][/\ \A p \in Procs :
             (proc[p].pc = "ret" /\ proc'[p].pc = "idle") => ~mutex'[proc[p].h]
       /\ \A h \in Handles :
             (\A p \in Procs : proc'[p].pc # "idle" => proc'[p].h # h) => ~mutex'[h]]_vars

\* a Lock through a handle has returned, and a later call through the same
\* handle has got the mutex and is about to return
C37_Witness ==
    \E p \in Procs :
        /\ proc[p].op = "IsLock" /\ proc[p].pc = "ret" /\ proc[p].nProbe = 1
        /\ proc[p].ret = Nil /\ Holds(proc[p].h)

\* ----------------------------------------------------------------- C35
\* C35: once a WaitForLock that was called on an Unlocked handle, no other
\* call through it being in progress, has returned the timeout error, the handle is Unlocked and every session the
\* client has not ended belongs to another handle or to a call through
\* another handle: none of the sessions its Lock attempts opened is left.
C35_TimedOutHoldsNothing ==
    (/\ task.kind = "WaitForLock" /\ task.pc = "done"
     /\ task.unlocked /\ task.ret # Nil)
    => /\ Is(task.ret, ErrCtx)
       /\ tx[task.h] = NoTx
       /\ \A s \in Sessions :
              sess[s].st # "none"
              => \/ \E a \in Handles \ {task.h} : tx[a] = s
                 \/ \E p \in Procs :
                        proc[p].pc # "idle" /\ proc[p].h # task.h /\ proc[p].tx = s

\* WaitForLock has made attempts on its Unlocked handle, met the key held
\* by another handle, and returned the timeout error
C35_Witness ==
    /\ task.kind = "WaitForLock" /\ task.pc = "done"
    /\ task.unlocked /\ task.tried /\ task.held
    /\ Is(task.ret, ErrCtx)
    /\ tx[task.h] = NoTx

\* ----------------------------------------------------------------- C36
\* C36: WaitForLock calls Lock only when it takes a tick from its ticker,
\* which holds none when WaitForLock starts; a WaitForLock whose context is
\* done when it is called never calls Lock, and what it returns is the
\* timeout error.
C36_LockOnlyOnTick ==
    [][task'.kind = "WaitForLock" =>
          /\ task.kind = "none"
             => (task'.pc = "select" /\ ~task'.tick /\ ~task'.tried /\ task'.p = 0)
          /\ (task'.pc = "lock" /\ task.pc # "lock")
             => (task.pc = "select" /\ task.tick /\ ~task'.tick)
          /\ (task'.tried /\ ~task.tried) => (task'.pc = "lock" /\ task.pc = "select")
          /\ task'.entryDone
             => (/\ ~task'.tried /\ task'.pc \in {"select", "done"}
                 /\ task'.pc = "done" => Is(task'.ret, ErrCtx))]_vars

\* WaitForLock was called with its context done and the key free, and has
\* returned the timeout error without a call of Lock
C36_Witness ==
    /\ task.kind = "WaitForLock" /\ task.pc = "done"
    /\ task.entryDone /\ ~task.tried
    /\ Is(task.ret, ErrCtx)
    /\ \A a \in Handles : tx[a] = NoTx

\* ----------------------------------------------------------------- C34
\* C34: a handle that has been Locked is Unlocked again after a Release
\* and after a detected loss; a Lock through it while it is Unlocked begins
\* a new session, and when the store answers the try-acquire and no other
\* live session holds the key, the handle is Locked on that new session and
\* Lock returns nil, however many times the handle was Locked before.
C34_Reusable ==
    [][\A p \in Procs :
          LET h == proc[p].h IN
          /\ (/\ h = task.h /\ proc[p].pc \in {"end", "lost"} /\ proc'[p].pc = "ret")
             => tx'[h] = NoTx
          /\ (/\ proc[p].pc = "idle" /\ proc'[p].op = "Lock"
              /\ proc'[p].h = task.h /\ tx[task.h] = NoTx)
             => (proc'[p].pc = "begin" /\ proc'[p].tx = NoTx)
          /\ (/\ h = task.h /\ proc[p].pc = "try" /\ proc'[p].pc # "try"
              /\ proc'[p].err = Nil
              /\ \A s \in Sessions : ~(sess[s].st = "open" /\ sess[s].lock = value[h]))
             => (/\ proc'[p].pc = "ret" /\ proc'[p].ret = Nil
                 /\ tx'[h] = proc[p].tx /\ proc[p].nBegin = 1
                 /\ sess'[tx'[h]] = [st |-> "open", lock |-> value[h]]
                 /\ task'.locked = IF task.locked < MaxCycles
                                   THEN task.locked + 1 ELSE MaxCycles)]_vars

\* the handle holds the key for the MaxCycles-th time
C34_Witness ==
    /\ task.h # 0 /\ task.locked = MaxCycles
    /\ Holds(task.h)
    /\ \E p \in Procs : FreshLock(p) /\ proc[p].h = task.h /\ proc[p].ret = Nil

====
